---------------------------- MODULE Spec2Model ----------------------------
(***************************************************************************)
(* Model of autojsonrpc's dispatch core: the type converter (types.py),    *)
(* MethodDefinition / ServiceDefinition / JsonRpcRegistry (__init__.py)    *)
(* and the transport-agnostic handle_request with its two framings.        *)
(*                                                                         *)
(* Values are tagged records so that values of different Python types can  *)
(* be compared.  A computation that can raise returns Ok(v) or Raise(e).   *)
(***************************************************************************)
EXTENDS Integers, Sequences, FiniteSets, TLC

(***************************************************************************)
(* Bounds of the model.                                                    *)
(***************************************************************************)
\* Largest number of lines read from one application/x-ndjson stream.
MaxLines == 3
\* Largest number of elements of a list, tuple or set given to the converter.
MaxItems == 2
\* Number of threads that call _execute_request concurrently.
NumThreads == 2
\* Number of objects of each service class given to register_service and set.
NumObjects == 2

(***************************************************************************)
(* Wire values (what json.loads produces) and typed Python values.         *)
(***************************************************************************)
JNull == [t |-> "null"]
JBool(b) == [t |-> "bool", b |-> b]
JInt(n) == [t |-> "int", n |-> n]
JStr(s) == [t |-> "str", s |-> s]
JList(l) == [t |-> "list", l |-> l]
JDict(d) == [t |-> "dict", d |-> d]
\* datetime.datetime: the instant is counted in days from 2024-01-01T00:00:00
PyDatetime(i) == [t |-> "datetime", inst |-> i]
\* an instance of a dataclass
PyRecord(c, f) == [t |-> "record", cls |-> c, f |-> f]
\* tuple and set
PyTuple(items) == [t |-> "tuple", items |-> items]
PySet(members) == [t |-> "set", members |-> members]
\* Numbers that are not integers are counted in tenths.  A float is the
\* double nearest to tenths/10: it is that number exactly only when the
\* number is a multiple of 1/2.
PyFloat(tenths) == [t |-> "float", tenths |-> tenths]
\* datetime.timedelta of tenths/10 seconds
PyTimedelta(tenths) == [t |-> "timedelta", dtenths |-> tenths]
\* decimal.Decimal: exactly tenths/10 when tail is FALSE; when tail is TRUE,
\* the exact binary expansion of the double nearest to tenths/10, a number
\* of 50 or more digits that differs from tenths/10
PyDecimal(tenths, tail) == [t |-> "decimal", ctenths |-> tenths, tail |-> tail]

Ok(v) == [ok |-> TRUE, v |-> v]
Raise(e) == [ok |-> FALSE, exc |-> e]

\* the empty mapping
EmptyMap == [k \in {} |-> JNull]

(***************************************************************************)
(* Declared types (annotations).                                           *)
(***************************************************************************)
TAny == [k |-> "any"]
TInt == [k |-> "int"]
TStr == [k |-> "str"]
TDatetime == [k |-> "datetime"]
TList(a) == [k |-> "list", a |-> a]
TTuple(a) == [k |-> "tuple", a |-> a]
TSet(a) == [k |-> "set", a |-> a]
TDict(kt, vt) == [k |-> "dict", kt |-> kt, vt |-> vt]
TTimedelta == [k |-> "timedelta"]
TDecimal == [k |-> "decimal"]
TDataclass(c) == [k |-> "dataclass", cls |-> c]

\* __dataclass_fields__ of the dataclasses of the repository, in declaration order
dataclass_fields(c) ==
  CASE c = "UserData" ->
    << [name |-> "username", type |-> TStr],
       [name |-> "lastlogin", type |-> TDatetime] >>

(***************************************************************************)
(* datetime.isoformat / datetime.fromisoformat on the instants modelled.   *)
(***************************************************************************)
Instants == {0, 1}

isoformat(i) ==
  CASE i = 0 -> "2024-01-01T00:00:00"
    [] i = 1 -> "2024-01-02T00:00:00"

\* fromisoformat also accepts the date-only form, which denotes midnight
fromisoformat(x) ==
  IF x.t # "str" THEN Raise("TypeError")
  ELSE CASE x.s = "2024-01-01T00:00:00" -> Ok(PyDatetime(0))
         [] x.s = "2024-01-01" -> Ok(PyDatetime(0))
         [] x.s = "2024-01-02T00:00:00" -> Ok(PyDatetime(1))
         [] x.s = "2024-01-02" -> Ok(PyDatetime(1))
         [] OTHER -> Raise("ValueError")

(***************************************************************************)
(* types.py: type_mappings for datetime.timedelta and decimal.Decimal      *)
(***************************************************************************)
\* x.total_seconds()
total_seconds(x) == PyFloat(x.dtenths)

\* datetime.timedelta(seconds=x): the seconds are rounded to the microsecond
timedelta(x) ==
  IF x.t = "float" THEN Ok(PyTimedelta(x.tenths))
  ELSE IF x.t = "int" THEN Ok(PyTimedelta(10 * x.n))
  ELSE IF x.t = "bool" THEN Ok(PyTimedelta(IF x.b THEN 10 ELSE 0))
  ELSE Raise("TypeError")

\* float(x) for a Decimal: the nearest double
float(x) == PyFloat(x.ctenths)

\* decimal.Decimal(x): a float is converted exactly, digit for digit of its
\* binary value
Decimal(x) ==
  IF x.t = "float" THEN Ok(PyDecimal(x.tenths, x.tenths % 5 # 0))
  ELSE IF x.t = "int" THEN Ok(PyDecimal(10 * x.n, FALSE))
  ELSE IF x.t = "bool" THEN Ok(PyDecimal(IF x.b THEN 10 ELSE 0, FALSE))
  ELSE IF x.t = "str" THEN
    CASE x.s = "0.1" -> Ok(PyDecimal(1, FALSE))
      [] x.s = "0.5" -> Ok(PyDecimal(5, FALSE))
      [] x.s = "2" -> Ok(PyDecimal(20, FALSE))
      [] OTHER -> Raise("InvalidOperation")
  ELSE Raise("TypeError")

\* the elements of a set of integers in increasing order, the order in which
\* CPython iterates a small set of small non-negative integers
RECURSIVE iterate_set(_)
iterate_set(members) ==
  IF members = {} THEN << >>
  ELSE LET least == CHOOSE m \in members : \A o \in members : m.n <= o.n
       IN << least >> \o iterate_set(members \ {least})

(***************************************************************************)
(* types.py: convert_arg                                                   *)
(***************************************************************************)
\* index of the first failed conversion in a sequence of results, 0 if none
RECURSIVE FirstFailure(_, _)
FirstFailure(rs, i) ==
  IF i > Len(rs) THEN 0
  ELSE IF ~rs[i].ok THEN i
  ELSE FirstFailure(rs, i + 1)

RECURSIVE convert_arg(_, _)
convert_arg(arg, python_type) ==
  IF python_type.k = "any" THEN Ok(arg)
  ELSE IF python_type.k \in {"list", "tuple", "set"} THEN
    \* [convert_arg(value, component_type) for value in arg]: a list whatever
    \* the origin is; None, booleans and numbers are not iterable
    IF arg.t \in {"null", "bool", "int", "float"} THEN Raise("TypeError")
    ELSE LET rs == [i \in 1..Len(arg.l) |-> convert_arg(arg.l[i], python_type.a)]
             bad == FirstFailure(rs, 1)
         IN IF bad # 0 THEN rs[bad]
            ELSE Ok(JList([i \in 1..Len(arg.l) |-> rs[i].v]))
  ELSE IF python_type.k = "dict" THEN
    \* {convert_arg(k, key_type): convert_arg(v, value_type) for k, v in arg.items()}
    \* with a key type that leaves a string key as it is
    IF arg.t # "dict" THEN Raise("AttributeError")
    ELSE LET failing == {n \in DOMAIN arg.d : ~convert_arg(arg.d[n], python_type.vt).ok}
         IN IF failing # {}
              THEN convert_arg(arg.d[CHOOSE n \in failing : TRUE], python_type.vt)
            ELSE Ok(JDict([n \in DOMAIN arg.d |-> convert_arg(arg.d[n], python_type.vt).v]))
  ELSE IF python_type.k = "dataclass" THEN
    \* values[field_name] = convert_arg(arg.get(field_name), field_type.type)
    IF arg.t # "dict" THEN Raise("AttributeError")
    ELSE LET fs == dataclass_fields(python_type.cls)
             arg_get(n) == IF n \in DOMAIN arg.d THEN arg.d[n] ELSE JNull
             rs == [i \in 1..Len(fs) |-> convert_arg(arg_get(fs[i].name), fs[i].type)]
             bad == FirstFailure(rs, 1)
         IN IF bad # 0 THEN rs[bad]
            ELSE Ok(PyRecord(python_type.cls,
                      [n \in {fs[i].name : i \in 1..Len(fs)} |->
                         rs[CHOOSE i \in 1..Len(fs) : fs[i].name = n].v]))
  ELSE IF python_type.k = "datetime" THEN fromisoformat(arg)
  ELSE IF python_type.k = "timedelta" THEN timedelta(arg)
  ELSE IF python_type.k = "decimal" THEN Decimal(arg)
  ELSE Ok(arg)

(***************************************************************************)
(* types.py: CustomJSONEncoder.default, to_dict                            *)
(***************************************************************************)
RECURSIVE default(_)
default(obj) ==
  IF obj.t = "null" THEN JNull
  ELSE IF obj.t = "record" THEN
    JDict([n \in DOMAIN obj.f |-> default(obj.f[n])])
  ELSE IF obj.t = "datetime" THEN default(JStr(isoformat(obj.inst)))
  ELSE IF obj.t = "timedelta" THEN default(total_seconds(obj))
  ELSE IF obj.t = "decimal" THEN default(float(obj))
  ELSE IF obj.t = "list" THEN
    JList([i \in 1..Len(obj.l) |-> default(obj.l[i])])
  ELSE IF obj.t = "tuple" THEN
    JList([i \in 1..Len(obj.items) |-> default(obj.items[i])])
  ELSE IF obj.t = "set" THEN
    JList([i \in 1..Cardinality(obj.members) |-> default(iterate_set(obj.members)[i])])
  ELSE IF obj.t = "dict" THEN
    JDict([n \in DOMAIN obj.d |-> default(obj.d[n])])
  ELSE obj

to_dict(obj) == default(obj)

(***************************************************************************)
(* The service classes of the repository: SayHelloService (test_flask.py), *)
(* ExampleService (test_wsgi.py, test_asgi.py) and SampleService (the      *)
(* module docstring of __init__.py).                                       *)
(***************************************************************************)
Classes == {"SayHelloService", "ExampleService", "SampleService"}

\* dir(instance): the attributes of an instance, dunder attributes included
dir(cls) ==
  {"__class__", "__doc__", "__init__"} \cup
  ( CASE cls = "SayHelloService" -> {"say_hello"}
      [] cls = "ExampleService" -> {"add"}
      [] cls = "SampleService" -> {"get_user", "say_hello"} )

\* method_name.startswith("_")
startswith_underscore(n) == n \in {"__class__", "__doc__", "__init__"}

\* callable(getattr(instance, n)); __doc__ is None or a string
callable(cls, n) == n # "__doc__"

\* inspect.signature of the bound method: (name, annotation) in declaration order
signature(cls, m) ==
  CASE cls = "SayHelloService" /\ m = "say_hello" ->
         << [name |-> "name", annotation |-> TStr] >>
    [] cls = "ExampleService" /\ m = "add" ->
         << [name |-> "a", annotation |-> TInt],
            [name |-> "b", annotation |-> TInt] >>
    [] cls = "SampleService" /\ m = "get_user" ->
         << [name |-> "username", annotation |-> TStr] >>
    [] cls = "SampleService" /\ m = "say_hello" ->
         << [name |-> "data", annotation |-> TDataclass("UserData")] >>

\* str(n) for an integer
RECURSIVE NatStr(_)
NatStr(n) ==
  LET digit(d) == CASE d = 0 -> "0" [] d = 1 -> "1" [] d = 2 -> "2" [] d = 3 -> "3"
                    [] d = 4 -> "4" [] d = 5 -> "5" [] d = 6 -> "6" [] d = 7 -> "7"
                    [] d = 8 -> "8" [] d = 9 -> "9"
  IN IF n < 10 THEN digit(n) ELSE NatStr(n \div 10) \o digit(n % 10)

\* str(v), as an f-string formats a value
PyStr(v) ==
  CASE v.t = "str" -> v.s
    [] v.t = "int" -> IF v.n < 0 THEN "-" \o NatStr(-v.n) ELSE NatStr(v.n)
    [] v.t = "null" -> "None"
    [] v.t = "bool" -> IF v.b THEN "True" ELSE "False"

\* a + b
PyAdd(a, b) ==
  LET num(x) == IF x.t = "bool" THEN (IF x.b THEN 1 ELSE 0) ELSE x.n
  IN IF a.t \in {"int", "bool"} /\ b.t \in {"int", "bool"} THEN Ok(JInt(num(a) + num(b)))
     ELSE IF a.t = "str" /\ b.t = "str" THEN Ok(JStr(a.s \o b.s))
     ELSE IF a.t = "list" /\ b.t = "list" THEN Ok(JList(a.l \o b.l))
     ELSE Raise("TypeError")

\* Python's binding of a call's arguments to the parameters of a signature:
\* Ok(mapping name -> value) or TypeError
BindCall(sig, args, kwargs) ==
  LET names == {sig[i].name : i \in 1..Len(sig)}
      positional == {sig[i].name : i \in 1..Len(sig)} \cap
                    {sig[i].name : i \in 1..Len(args)}
  IN IF Len(args) > Len(sig) THEN Raise("TypeError")
     ELSE IF ~(DOMAIN kwargs \subseteq names) THEN Raise("TypeError")
     ELSE IF DOMAIN kwargs \cap positional # {} THEN Raise("TypeError")
     ELSE IF names # positional \cup DOMAIN kwargs THEN Raise("TypeError")
     ELSE Ok([n \in names |->
                IF n \in DOMAIN kwargs THEN kwargs[n]
                ELSE args[CHOOSE i \in 1..Len(sig) : sig[i].name = n]])

\* the body of a service method on bound parameters b; now is datetime.now()
MethodBody(cls, m, b, now) ==
  CASE cls = "SayHelloService" /\ m = "say_hello" ->
         Ok(JStr("Hello, " \o PyStr(b["name"]) \o "!"))
    [] cls = "ExampleService" /\ m = "add" -> PyAdd(b["a"], b["b"])
    [] cls = "SampleService" /\ m = "get_user" ->
         Ok(PyRecord("UserData",
              [n \in {"username", "lastlogin"} |->
                 IF n = "username" THEN b["username"] ELSE PyDatetime(now)]))
    [] cls = "SampleService" /\ m = "say_hello" ->
         IF b["data"].t = "record"
         THEN Ok(JStr("Hello " \o PyStr(b["data"].f["username"]) \o "!"))
         ELSE Raise("AttributeError")

\* self.func(*args, **kwargs) for the bound method m of an instance of cls
CallMethod(cls, m, args, kwargs, now) ==
  LET b == BindCall(signature(cls, m), args, kwargs)
  IN IF b.ok THEN MethodBody(cls, m, b.v, now) ELSE b

(***************************************************************************)
(* State.                                                                  *)
(***************************************************************************)
VARIABLES
  _service_definitions,  \* JsonRpcRegistry._service_definitions: name -> ServiceDefinition
  _method_definitions,   \* JsonRpcRegistry._method_definitions: "<service>.<method>" -> MethodDefinition
  call,                  \* the last direct call of _execute_request: payload and outcome
  http,                  \* the last call of handle_request and the iterable it returned
  decorated,             \* the last call of the decorator: its name, class and return value
  conversion,            \* the last to_dict / convert_arg round of the type converter
  threads,               \* the concurrent calls of _execute_request: thread -> its frame
  got                    \* the last call of registry.get: the name and what it returned

vars == << _service_definitions, _method_definitions, call, http, decorated,
           conversion, threads, got >>

(***************************************************************************)
(* __init__.py: MethodDefinition, ServiceDefinition                        *)
(***************************************************************************)
\* MethodDefinition.__init__: func is the method bound to the service instance
MethodDefinition(name, func, servicedef) ==
  [name |-> name, func |-> func, servicedef |-> servicedef,
   signature |-> signature(func.self.cls, func.name)]

\* getattr(service_instance, method_name)
BoundMethod(instance, method_name) == [self |-> instance, name |-> method_name]

\* ServiceDefinition.__init__: the public callables of the new instance
ServiceDefinition(name, instance) ==
  [name |-> name,
   service_instance |-> instance,
   methods |-> [method_name \in {n \in dir(instance.cls) :
                                   ~startswith_underscore(n) /\ callable(instance.cls, n)} |->
                  MethodDefinition(method_name, BoundMethod(instance, method_name), name)]]

\* MethodDefinition.arg_types
arg_types(method_def) ==
  [i \in 1..Len(method_def.signature) |-> method_def.signature[i].annotation]

\* MethodDefinition.arg_names
arg_names(method_def) ==
  [i \in 1..Len(method_def.signature) |-> method_def.signature[i].name]

\* parse_args_list with the arity test counting the self parameter
parse_args_list_counting_self(method_def, args) ==
  IF Len(args) # Len(arg_types(method_def)) + 1 THEN Raise("ValueError")
  ELSE LET rs == [i \in 1..Len(arg_types(method_def)) |->
                    convert_arg(args[i], arg_types(method_def)[i])]
           bad == FirstFailure(rs, 1)
       IN IF bad # 0 THEN rs[bad]
          ELSE Ok([i \in 1..Len(arg_types(method_def)) |-> rs[i].v])

\* MethodDefinition.parse_args_list
parse_args_list(method_def, args) ==
  IF Len(args) # Len(arg_types(method_def)) THEN Raise("ValueError")
  ELSE LET rs == [i \in 1..Len(args) |-> convert_arg(args[i], arg_types(method_def)[i])]
           bad == FirstFailure(rs, 1)
       IN IF bad # 0 THEN rs[bad] ELSE Ok([i \in 1..Len(args) |-> rs[i].v])

\* MethodDefinition.parse_args_dict: only the names present in args are looked at
parse_args_dict(method_def, args) ==
  LET names == {method_def.signature[i].name : i \in 1..Len(method_def.signature)}
      annotation(n) ==
        method_def.signature[CHOOSE i \in 1..Len(method_def.signature) :
                               method_def.signature[i].name = n].annotation
      r(n) == IF n \notin names THEN Raise("KeyError")
              ELSE convert_arg(args[n], annotation(n))
      failing == {n \in DOMAIN args : ~r(n).ok}
  IN IF failing # {} THEN r(CHOOSE n \in failing : TRUE)
     ELSE Ok([n \in DOMAIN args |-> r(n).v])

\* MethodDefinition.get_invoker: invoker(*args, **kwargs) calls self.func
invoker(method_def, args, kwargs, now) ==
  CallMethod(method_def.func.self.cls, method_def.func.name, args, kwargs, now)

(***************************************************************************)
(* __init__.py: JsonRpcRegistry._make_error, _execute_request              *)
(***************************************************************************)
INVALID_REQUEST == -32600
METHOD_NOT_FOUND == -32601
INVALID_PARAMS == -32602
SERVER_ERROR == -32000

\* _make_error that also fills a null result field
_make_error_with_result(code, message, id) ==
  LET err == [k \in {"jsonrpc", "error", "result"} |->
                CASE k = "jsonrpc" -> JStr("2.0")
                  [] k = "result" -> JNull
                  [] k = "error" ->
                       JDict([f \in {"code", "message"} |->
                                IF f = "code" THEN JInt(code) ELSE JStr(message)])]
  IN IF id # JNull
     THEN JDict([k \in {"jsonrpc", "error", "result", "id"} |->
                   IF k = "id" THEN id ELSE err[k]])
     ELSE JDict(err)

\* _make_error(code, message or exception, id); None is JNull.  The message
\* built from an exception is "[file:line] str(exception)", modelled by the
\* exception's type name.
_make_error(code, message, id) ==
  LET err == [k \in {"jsonrpc", "error"} |->
                IF k = "jsonrpc" THEN JStr("2.0")
                ELSE JDict([f \in {"code", "message"} |->
                              IF f = "code" THEN JInt(code) ELSE JStr(message)])]
  IN IF id # JNull
     THEN JDict([k \in {"jsonrpc", "error", "id"} |-> IF k = "id" THEN id ELSE err[k]])
     ELSE JDict(err)

\* outcome of a call of _execute_request: the envelope returned or the
\* exception that left it, with the calls of service methods it made
Returned(response, calls) == [ok |-> TRUE, v |-> response, calls |-> calls]
Raised(exc, calls) == [ok |-> FALSE, exc |-> exc, calls |-> calls]

\* validate with the version test reduced to the presence of the key
validate_any_version(payload) ==
  IF payload.t = "dict" THEN
    IF "jsonrpc" \notin DOMAIN payload.d THEN Ok("Invalid JSON-RPC version")
    ELSE IF "method" \notin DOMAIN payload.d THEN Ok("Method not specified")
    ELSE IF "params" \notin DOMAIN payload.d THEN Ok("Params not specified")
    ELSE IF "id" \notin DOMAIN payload.d THEN Ok("ID not specified")
    ELSE Ok("")
  ELSE IF payload.t = "list" THEN
    IF \E i \in 1..Len(payload.l) : payload.l[i] = JStr("jsonrpc")
      THEN Raise("TypeError")
    ELSE Ok("Invalid JSON-RPC version")
  ELSE Raise("TypeError")

\* "jsonrpc" in payload and payload["jsonrpc"] == "2.0", ... : Ok(message of
\* the failed assertion, "" if none) or the exception of the test itself
validate(payload) ==
  IF payload.t = "dict" THEN
    IF ~("jsonrpc" \in DOMAIN payload.d /\ payload.d["jsonrpc"] = JStr("2.0"))
      THEN Ok("Invalid JSON-RPC version")
    ELSE IF "method" \notin DOMAIN payload.d THEN Ok("Method not specified")
    ELSE IF "params" \notin DOMAIN payload.d THEN Ok("Params not specified")
    ELSE IF "id" \notin DOMAIN payload.d THEN Ok("ID not specified")
    ELSE Ok("")
  ELSE IF payload.t = "list" THEN
    \* membership in a list; a list cannot be indexed by a string
    IF \E i \in 1..Len(payload.l) : payload.l[i] = JStr("jsonrpc")
      THEN Raise("TypeError")
    ELSE Ok("Invalid JSON-RPC version")
  ELSE
    \* None, booleans and numbers do not support "in"
    Raise("TypeError")

\* values that cannot be a dict key
unhashable(v) == v.t \in {"list", "dict"}

\* self._method_definitions.get(payload["method"]): Ok(definition), Ok(NoMethod)
\* when the key is absent, TypeError when the value cannot be hashed
NoMethod == [name |-> ""]

resolve(method_definitions, method) ==
  IF unhashable(method) THEN Raise("TypeError")
  ELSE IF method.t = "str" /\ method.s \in DOMAIN method_definitions
    THEN Ok(method_definitions[method.s])
  ELSE Ok(NoMethod)

\* bind without the else branch: other shapes of params bind no argument
bind_without_else(method_def, params) ==
  IF params.t = "dict" THEN
    LET kwparams == parse_args_dict(method_def, params.d)
    IN IF kwparams.ok THEN Ok([args |-> << >>, kwargs |-> kwparams.v])
       ELSE Raise(kwparams.exc)
  ELSE IF params.t = "list" THEN
    LET typed == parse_args_list(method_def, params.l)
    IN IF typed.ok THEN Ok([args |-> typed.v, kwargs |-> EmptyMap])
       ELSE Raise(typed.exc)
  ELSE Ok([args |-> << >>, kwargs |-> EmptyMap])

\* the first try block: Ok(positional and named arguments of the call) or the
\* message of the -32602 error
bind(method_def, params) ==
  IF params.t = "dict" THEN
    LET kwparams == parse_args_dict(method_def, params.d)
    IN IF kwparams.ok THEN Ok([args |-> << >>, kwargs |-> kwparams.v])
       ELSE Raise(kwparams.exc)
  ELSE IF params.t = "list" THEN
    LET typed == parse_args_list(method_def, params.l)
    IN IF typed.ok THEN Ok([args |-> typed.v, kwargs |-> EmptyMap])
       ELSE Raise(typed.exc)
  ELSE Raise("Invalid params")

\* the Result envelope
make_result(result, id) ==
  JDict([k \in {"jsonrpc", "result", "id"} |->
           CASE k = "jsonrpc" -> JStr("2.0")
             [] k = "result" -> to_dict(result)
             [] k = "id" -> id])

_execute_request(method_definitions, payload, now) ==
  LET checked == validate(payload) IN
  IF ~checked.ok THEN Raised(checked.exc, << >>)
  ELSE IF checked.v # "" THEN Returned(_make_error(INVALID_REQUEST, checked.v, JNull), << >>)
  ELSE
  LET method == payload.d["method"]
      params == payload.d["params"]
      id == payload.d["id"]
      found == resolve(method_definitions, method)
  IN
  IF ~found.ok THEN Raised(found.exc, << >>)
  ELSE IF found.v = NoMethod
    THEN Returned(_make_error(METHOD_NOT_FOUND, "Method not found", id), << >>)
  ELSE
  LET method_def == found.v
      bound == bind(method_def, params)
  IN
  IF ~bound.ok THEN Returned(_make_error(INVALID_PARAMS, bound.exc, id), << >>)
  ELSE
  LET result == invoker(method_def, bound.v.args, bound.v.kwargs, now)
      calls == << [method |-> method.s, self |-> method_def.func.self,
                   args |-> bound.v.args, kwargs |-> bound.v.kwargs] >>
  IN
  IF result.ok THEN Returned(make_result(result.v, id), calls)
  ELSE Returned(_make_error(SERVER_ERROR, result.exc, id), calls)

(***************************************************************************)
(* __init__.py: JsonRpcRegistry.register_service, jsonrpc_service          *)
(***************************************************************************)
\* register_service that indexes the methods by their bare names
register_service_unqualified(service_definitions, method_definitions, name, instance) ==
  LET definition == ServiceDefinition(name, instance)
  IN [services |-> [n \in DOMAIN service_definitions \cup {name} |->
                      IF n = name THEN definition ELSE service_definitions[n]],
      methods |-> [key \in DOMAIN method_definitions \cup DOMAIN definition.methods |->
                     IF key \in DOMAIN definition.methods THEN definition.methods[key]
                     ELSE method_definitions[key]]]

\* the registry after register_service(name, service_instancier), where
\* instance is what service_instancier() returns
register_service(service_definitions, method_definitions, name, instance) ==
  LET definition == ServiceDefinition(name, instance)
      keys == {name \o "." \o method_name : method_name \in DOMAIN definition.methods}
      method_of(key) ==
        definition.methods[CHOOSE method_name \in DOMAIN definition.methods :
                             key = name \o "." \o method_name]
  IN [services |-> [n \in DOMAIN service_definitions \cup {name} |->
                      IF n = name THEN definition ELSE service_definitions[n]],
      methods |-> [key \in DOMAIN method_definitions \cup keys |->
                     IF key \in keys THEN method_of(key) ELSE method_definitions[key]]]

\* cls.__name__[0].lower() + cls.__name__[1:]
default_name(cls) ==
  CASE cls = "SayHelloService" -> "sayHelloService"
    [] cls = "ExampleService" -> "exampleService"
    [] cls = "SampleService" -> "sampleService"

\* the decorated classes of the repository: @jsonrpc_service() (name "") on
\* SayHelloService and ExampleService, @jsonrpc_service('sampleService')
Decorations ==
  { [name |-> "", cls |-> "SayHelloService"],
    [name |-> "", cls |-> "ExampleService"],
    [name |-> "sampleService", cls |-> "SampleService"] }

(***************************************************************************)
(* Requests offered to the registry.                                       *)
(***************************************************************************)
Seq1(a) == << a >>
Map1(k, v) == [n \in {k} |-> v]
Map2(k1, v1, k2, v2) == [n \in {k1, k2} |-> IF n = k1 THEN v1 ELSE v2]

UserWire(username, lastlogin) == JDict(Map2("username", username, "lastlogin", lastlogin))

\* params for exampleService.add(a: int, b: int)
ParamsAdd ==
  { JList(<< JInt(2), JInt(3) >>), JList(<< JInt(17), JInt(3) >>),
    JList(<< JStr("a"), JInt(2) >>), JList(<< JNull, JInt(2) >>),
    JList(<< JInt(2) >>), JList(<< JInt(2), JInt(3), JInt(3) >>),
    JDict(Map2("a", JInt(2), "b", JInt(3))), JDict(Map1("a", JInt(2))),
    JDict(Map2("a", JInt(2), "c", JInt(3))), JDict(Map2("a", JStr("a"), "b", JInt(3))) }

\* params for sayHelloService.say_hello(name: str)
ParamsHello ==
  { JList(<< JStr("World") >>), JDict(Map1("name", JStr("World"))),
    JList(<< >>), JDict(EmptyMap), JList(<< JInt(2) >>),
    JDict(Map1("nom", JStr("World"))) }

\* params for sampleService.get_user(username: str)
ParamsUser ==
  { JList(<< JStr("Alice") >>), JDict(Map1("username", JStr("Alice"))) }

\* params for sampleService.say_hello(data: UserData)
ParamsData ==
  { JList(Seq1(UserWire(JStr("Alice"), JStr("2024-01-01T00:00:00")))),
    JList(Seq1(UserWire(JStr("Alice"), JStr("2024-01-02")))),
    JList(Seq1(UserWire(JStr("Alice"), JStr("yesterday")))),
    JList(Seq1(JDict(Map1("username", JStr("Alice"))))),
    JList(Seq1(JDict(Map1("lastlogin", JStr("2024-01-01T00:00:00"))))),
    JList(<< JInt(5) >>),
    JDict(Map1("data", UserWire(JStr("Alice"), JStr("2024-01-01T00:00:00")))) }

\* params that are neither a list nor a mapping
ParamsScalar == { JInt(5), JStr("ab"), JBool(TRUE), JNull }

\* method values that are no key of the index whatever is registered
MethodsUnknown ==
  { JStr("exampleService.subtract"), JStr("exampleService.__init__"), JStr("add"),
    JInt(5), JNull, JList(<< >>), JDict(EmptyMap) }

Envelope(jsonrpc, method, params, id) ==
  JDict([k \in {"jsonrpc", "method", "params", "id"} |->
           CASE k = "jsonrpc" -> jsonrpc
             [] k = "method" -> method
             [] k = "params" -> params
             [] k = "id" -> id])

\* the payload without the keys of a set
Without(payload, keys) == JDict([k \in DOMAIN payload.d \ keys |-> payload.d[k]])

Calls ==
  ({"exampleService.add"} \X (ParamsAdd \cup ParamsScalar \cup ParamsHello)) \cup
  ({"sayHelloService.say_hello"} \X (ParamsHello \cup ParamsScalar)) \cup
  ({"sampleService.get_user"} \X (ParamsUser \cup ParamsScalar \cup ParamsData)) \cup
  ({"sampleService.say_hello"} \X (ParamsData \cup ParamsScalar \cup ParamsHello))

Ids == { JInt(1), JNull, JInt(0), JStr(""), JBool(FALSE) }

\* well-versioned envelopes with all four keys
FullEnvelopes ==
  { Envelope(JStr("2.0"), JStr(c[1]), c[2], id) : c \in Calls, id \in {JInt(1), JNull} } \cup
  { Envelope(JStr("2.0"), m, p, id) :
      m \in MethodsUnknown, p \in {JList(<< JInt(2), JInt(3) >>), JInt(5)},
      id \in {JInt(1), JNull} } \cup
  { Envelope(JStr("2.0"), m, JList(<< JInt(2), JInt(3) >>), id) :
      m \in {JStr("exampleService.add"), JStr("exampleService.subtract")}, id \in Ids }

\* envelopes with a missing key or another version
BrokenEnvelopes ==
  { Without(Envelope(v, m, p, JInt(1)), keys) :
      v \in {JStr("2.0"), JStr("1.0"), JInt(2)},
      m \in {JStr("exampleService.add"), JList(<< >>)},
      p \in {JList(<< JInt(2), JInt(3) >>), JInt(5)},
      keys \in { {}, {"jsonrpc"}, {"method"}, {"params"}, {"id"}, {"method", "id"},
                 {"jsonrpc", "method", "params", "id"} } }

\* parsed JSON that is no object
NonObjects == { JInt(5), JNull, JList(<< >>), JList(<< JStr("jsonrpc") >>) }

Payloads == FullEnvelopes \cup BrokenEnvelopes \cup NonObjects

\* datetime.now() is read by get_user only: the readings of the clock that
\* can make a difference to the execution of a payload
ClockReadings(payload) ==
  IF /\ payload.t = "dict"
     /\ "method" \in DOMAIN payload.d
     /\ payload.d["method"] = JStr("sampleService.get_user")
  THEN Instants ELSE {0}

(***************************************************************************)
(* Text: a body or a line is modelled by what json.loads makes of it.      *)
(***************************************************************************)
Malformed == [kind |-> "malformed"]
\* a line that is empty or white space only
Blank == [kind |-> "blank"]

\* json.dumps(value)
dumps(value) == [kind |-> "json", value |-> value]

\* json.loads(text)
json_loads(text) ==
  IF text.kind = "json" THEN Ok(text.value) ELSE Raise("JSONDecodeError")

\* not line.strip()
is_blank(line) == line.kind = "blank"

\* types.py: to_json
to_json(obj) == dumps(to_dict(obj))

\* str.encode(): the bytes of a chunk are a sequence of pieces, each a JSON
\* text or a line terminator; the chunk carries the text and nothing after it
encode(text) == [bytes |-> << text >>]

\* payloads sent through handle_request
StreamPayloads ==
  { Envelope(JStr("2.0"), JStr("exampleService.add"), JList(<< JInt(2), JInt(3) >>), JInt(1)),
    Envelope(JStr("2.0"), JStr("sayHelloService.say_hello"), JList(<< JStr("World") >>), JInt(0)),
    Envelope(JStr("2.0"), JStr("exampleService.subtract"), JList(<< JInt(2), JInt(3) >>), JInt(1)),
    Envelope(JStr("2.0"), JList(<< >>), JList(<< JInt(2), JInt(3) >>), JInt(1)),
    JInt(5) }

\* the non-blank lines of an application/x-ndjson stream
NonBlankLines == {Malformed} \cup {dumps(payload) : payload \in StreamPayloads}

\* the bodies of an application/json request
Bodies ==
  {Malformed, Blank} \cup {dumps(payload) : payload \in StreamPayloads} \cup
  { dumps(Envelope(JStr("2.0"), JStr("exampleService.add"), JInt(5), JInt(1))),
    dumps(Envelope(JStr("2.0"), JStr("exampleService.add"),
                   JList(<< JStr("a"), JInt(2) >>), JNull)),
    dumps(Without(Envelope(JStr("2.0"), JStr("exampleService.add"),
                           JList(<< JInt(2), JInt(3) >>), JInt(1)), {"id"})) }

\* content types that are neither of the two the handler knows
OtherMimetypes ==
  { "", "text/plain", "application/json; charset=utf-8", "Application/JSON" }

\* the state of one handle_request call: what it raised or returned, the
\* lines read so far, the runs of _execute_request, the chunks taken so far
Http(mimetype, raised, status, iterable, pending, gen, read, executed, output) ==
  [mimetype |-> mimetype, raised |-> raised, status |-> status, iterable |-> iterable,
   pending |-> pending, gen |-> gen, read |-> read, executed |-> executed,
   output |-> output]

NoHttp == Http("", "", "", "", << >>, "", << >>, << >>, << >>)

\* one run of _execute_request on line number line (0: the whole body)
Run(line, payload, outcome) == [line |-> line, payload |-> payload, outcome |-> outcome]

\* handle_request(input_stream, "application/json") once the body is parsed
\* and _execute_request has run on it
json_response(body, payload, outcome) ==
  IF ~outcome.ok
    THEN Http("application/json", outcome.exc, "", "", << >>, "", << body >>,
              << Run(0, payload, outcome) >>, << >>)
  ELSE Http("application/json", "",
            IF "error" \in DOMAIN outcome.v.d
              THEN "500 Internal Server Error" ELSE "200 OK",
            "list_iterator", << encode(to_json(outcome.v)) >>, "", << body >>,
            << Run(0, payload, outcome) >>, << >>)

\* handle_request(input_stream, "application/json")
handle_request_json(method_definitions, body, now) ==
  IF json_loads(body).ok
    THEN json_response(body, json_loads(body).v,
                       _execute_request(method_definitions, json_loads(body).v, now))
  ELSE Http("application/json", json_loads(body).exc, "", "", << >>, "",
            << body >>, << >>, << >>)

\* the generator once a line is parsed and _execute_request has run on it
ndjson_response(h, read, payload, outcome) ==
  IF ~outcome.ok
    THEN [h EXCEPT !.read = read, !.gen = "raised", !.raised = outcome.exc,
                   !.executed = Append(h.executed, Run(Len(read), payload, outcome))]
  ELSE [h EXCEPT !.read = read,
                 !.executed = Append(h.executed, Run(Len(read), payload, outcome)),
                 !.output = Append(h.output, encode(to_json(outcome.v)))]

\* next(generate_response()) when the reader delivers lines: all but the last
\* are blank and skipped, the last is parsed, executed and its response yielded
generate_response_next(method_definitions, h, lines, now) ==
  IF json_loads(lines[Len(lines)]).ok
    THEN ndjson_response(h, h.read \o lines, json_loads(lines[Len(lines)]).v,
                         _execute_request(method_definitions,
                                          json_loads(lines[Len(lines)]).v, now))
  ELSE [h EXCEPT !.read = h.read \o lines, !.gen = "raised",
                 !.raised = json_loads(lines[Len(lines)]).exc]

\* the same for the payload a text carries
TextClockReadings(text) ==
  IF text.kind = "json" THEN ClockReadings(text.value) ELSE {0}

\* n blank lines
Blanks(n) == [i \in 1..n |-> Blank]

(***************************************************************************)
(* Initial state and actions.                                              *)
(***************************************************************************)
NoCall == << >>
NoDecoration == << >>
NoConversion == << >>
NoThreads == << >>
NoGet == << >>

Init ==
  /\ _service_definitions = EmptyMap
  /\ _method_definitions = EmptyMap
  /\ call = NoCall
  /\ http = NoHttp
  /\ decorated = NoDecoration
  /\ conversion = NoConversion
  /\ threads = NoThreads
  /\ got = NoGet

\* jsonrpc_service(name)(cls): the decorator registers cls() under its name
JsonrpcService(decoration) ==
  LET name == IF decoration.name # "" THEN decoration.name
              ELSE default_name(decoration.cls)
      registry == register_service(_service_definitions, _method_definitions,
                                   name, [cls |-> decoration.cls])
  IN /\ _service_definitions' = registry.services
     /\ _method_definitions' = registry.methods
     /\ call' = NoCall
     /\ decorated' = << [name |-> decoration.name, cls |-> decoration.cls,
                         returned |-> decoration.cls] >>
     /\ UNCHANGED << http, conversion, threads, got >>

\* registry._execute_request(payload)
ExecuteRequest(payload, now) ==
  /\ call' = << [payload |-> payload, now |-> now,
                 outcome |-> _execute_request(_method_definitions, payload, now)] >>
  /\ http' = NoHttp
  /\ UNCHANGED << _service_definitions, _method_definitions >>
  /\ UNCHANGED << decorated, conversion, threads, got >>

\* registry.handle_request(input_stream, "application/json")
HandleRequestJson(body, now) ==
  /\ http' = handle_request_json(_method_definitions, body, now)
  /\ call' = NoCall
  /\ UNCHANGED << _service_definitions, _method_definitions >>
  /\ UNCHANGED << decorated, conversion, threads, got >>

\* handle_request that builds the list of the responses before returning it:
\* the first line is read and executed within the call
HandleRequestNdjson_eager ==
  /\ http' = [ndjson_response(
                 Http("application/x-ndjson", "", "200 OK", "generator", << >>,
                      "suspended", << >>, << >>, << >>),
                 << dumps(Envelope(JStr("2.0"), JStr("exampleService.add"),
                                   JList(<< JInt(2), JInt(3) >>), JInt(1))) >>,
                 Envelope(JStr("2.0"), JStr("exampleService.add"),
                          JList(<< JInt(2), JInt(3) >>), JInt(1)),
                 _execute_request(_method_definitions,
                                  Envelope(JStr("2.0"), JStr("exampleService.add"),
                                           JList(<< JInt(2), JInt(3) >>), JInt(1)), 0))
              EXCEPT !.output = << >>]
  /\ call' = NoCall
  /\ UNCHANGED << _service_definitions, _method_definitions >>
  /\ UNCHANGED << decorated, conversion, threads, got >>

\* registry.handle_request(input_stream, "application/x-ndjson"): the
\* generator is returned before any line is read
HandleRequestNdjson ==
  /\ http' = Http("application/x-ndjson", "", "200 OK", "generator", << >>,
                  "suspended", << >>, << >>, << >>)
  /\ call' = NoCall
  /\ UNCHANGED << _service_definitions, _method_definitions >>
  /\ UNCHANGED << decorated, conversion, threads, got >>

\* handle_request that takes the media type of a content type with parameters
HandleRequestOther_ignoring_parameters(mimetype) ==
  /\ http' = IF mimetype = "application/json; charset=utf-8"
               THEN [handle_request_json(_method_definitions,
                       dumps(Envelope(JStr("2.0"), JStr("exampleService.add"),
                                      JList(<< JInt(2), JInt(3) >>), JInt(1))), 0)
                     EXCEPT !.mimetype = mimetype]
             ELSE Http(mimetype, "", "415 Unsupported Media Type", "BytesIO", << >>,
                       "", << >>, << >>, << >>)
  /\ call' = NoCall
  /\ UNCHANGED << _service_definitions, _method_definitions >>
  /\ UNCHANGED << decorated, conversion, threads, got >>

\* registry.handle_request(input_stream, mimetype) for any other mimetype
HandleRequestOther(mimetype) ==
  /\ http' = Http(mimetype, "", "415 Unsupported Media Type", "BytesIO", << >>,
                  "", << >>, << >>, << >>)
  /\ call' = NoCall
  /\ UNCHANGED << _service_definitions, _method_definitions >>
  /\ UNCHANGED << decorated, conversion, threads, got >>

\* the consumer iterates io.BytesIO(b""): it is exhausted at once, no chunk
BytesIONext ==
  /\ http.iterable = "BytesIO"
  /\ http.gen = ""
  /\ http' = [http EXCEPT !.gen = "done"]
  /\ UNCHANGED << _service_definitions, _method_definitions, call >>
  /\ UNCHANGED << decorated, conversion, threads, got >>

\* the consumer takes the next chunk of iter([...])
ListIteratorNext ==
  /\ http.iterable = "list_iterator"
  /\ http.pending # << >>
  /\ http' = [http EXCEPT !.pending = Tail(http.pending),
                          !.output = Append(http.output, Head(http.pending))]
  /\ UNCHANGED << _service_definitions, _method_definitions, call >>
  /\ UNCHANGED << decorated, conversion, threads, got >>

\* the consumer asks the generator for the next chunk and the reader has
\* blanks blank lines and then a non-blank line
GeneratorNext(blanks, line, now) ==
  /\ http.iterable = "generator"
  /\ http.gen = "suspended"
  /\ Len(http.read) + blanks + 1 <= MaxLines
  /\ http' = generate_response_next(_method_definitions, http,
                                    Append(Blanks(blanks), line), now)
  /\ UNCHANGED << _service_definitions, _method_definitions, call >>
  /\ UNCHANGED << decorated, conversion, threads, got >>

\* the consumer asks the generator for the next chunk and the reader has
\* only blanks blank lines left: the generator returns
GeneratorEnd(blanks) ==
  /\ http.iterable = "generator"
  /\ http.gen = "suspended"
  /\ Len(http.read) + blanks <= MaxLines
  /\ http' = [http EXCEPT !.read = http.read \o Blanks(blanks), !.gen = "done"]
  /\ UNCHANGED << _service_definitions, _method_definitions, call >>
  /\ UNCHANGED << decorated, conversion, threads, got >>

Next ==
  \/ \E decoration \in Decorations : JsonrpcService(decoration)
  \/ \E payload \in Payloads : \E now \in ClockReadings(payload) :
       ExecuteRequest(payload, now)
  \/ \E body \in Bodies : \E now \in TextClockReadings(body) :
       HandleRequestJson(body, now)
  \/ HandleRequestNdjson
  \/ \E mimetype \in OtherMimetypes : HandleRequestOther(mimetype)
  \/ ListIteratorNext
  \/ BytesIONext
  \/ \E blanks \in 0..MaxLines, line \in NonBlankLines :
       \E now \in TextClockReadings(line) : GeneratorNext(blanks, line, now)
  \/ \E blanks \in 0..MaxLines : GeneratorEnd(blanks)

Spec == Init /\ [][Next]_vars

(***************************************************************************)
(* The type converter on its own: a typed value is encoded by to_dict and  *)
(* the wire value decoded by convert_arg against the type of the value.    *)
(***************************************************************************)
\* the sequences of at most MaxItems elements of a set
SeqsUpTo(S) == UNION {[1..n -> S] : n \in 0..MaxItems}

\* the mappings from some of the keys "a", "b" to elements of a set
MapsTo(S) == UNION {[K -> S] : K \in SUBSET {"a", "b"}}

\* some values of a declared type
RECURSIVE ValuesOf(_)
ValuesOf(python_type) ==
  CASE python_type.k = "any" -> {JNull, JInt(2), JStr("Alice"), JBool(TRUE)}
    [] python_type.k = "int" -> {JInt(0), JInt(2), JInt(-1)}
    [] python_type.k = "str" -> {JStr(""), JStr("Alice")}
    [] python_type.k = "datetime" -> {PyDatetime(i) : i \in Instants}
    [] python_type.k = "timedelta" -> {PyTimedelta(n) : n \in {0, 1, 10}}
    [] python_type.k = "decimal" -> {PyDecimal(n, FALSE) : n \in {0, 1, 5, 20}}
    [] python_type.k = "dataclass" ->
         {PyRecord("UserData",
                   [n \in {"username", "lastlogin"} |->
                      IF n = "username" THEN u ELSE PyDatetime(i)]) :
            u \in {JStr("Alice"), JStr("")}, i \in Instants}
    [] python_type.k = "list" -> {JList(l) : l \in SeqsUpTo(ValuesOf(python_type.a))}
    [] python_type.k = "tuple" -> {PyTuple(l) : l \in SeqsUpTo(ValuesOf(python_type.a))}
    [] python_type.k = "set" ->
         {PySet(m) : m \in {x \in SUBSET ValuesOf(python_type.a) : Cardinality(x) <= MaxItems}}
    [] python_type.k = "dict" -> {JDict(d) : d \in MapsTo(ValuesOf(python_type.vt))}

ElementTypes == {TAny, TInt, TStr, TDatetime, TTimedelta, TDecimal, TDataclass("UserData")}

DeclaredTypes ==
  ElementTypes \cup {TList(a) : a \in ElementTypes} \cup
  {TDict(TStr, a) : a \in {TInt, TDatetime, TDataclass("UserData")}} \cup
  {TTuple(TInt), TTuple(TStr), TSet(TInt), TList(TList(TStr))}

\* to_dict(v) for a value v of the declared type
ToDict(value, python_type) ==
  /\ conversion' = << [value |-> value, type |-> python_type, wire |-> to_dict(value)] >>
  /\ UNCHANGED << _service_definitions, _method_definitions, call, http, decorated,
                  threads, got >>

\* convert_arg(wire, python_type) on what to_dict produced
ConvertArg ==
  /\ conversion # NoConversion
  /\ "back" \notin DOMAIN conversion[1]
  /\ conversion' = << [value |-> conversion[1].value, type |-> conversion[1].type,
                       wire |-> conversion[1].wire,
                       back |-> convert_arg(conversion[1].wire, conversion[1].type)] >>
  /\ UNCHANGED << _service_definitions, _method_definitions, call, http, decorated,
                  threads, got >>

RoundTripNext ==
  \/ \E python_type \in DeclaredTypes : \E value \in ValuesOf(python_type) :
       ToDict(value, python_type)
  \/ ConvertArg

RoundTripSpec == Init /\ [][RoundTripNext]_vars

(***************************************************************************)
(* Concurrent calls of _execute_request, one per thread, statement by      *)
(* statement.  The registry is the module-level one after the decorated    *)
(* classes of the repository were imported, and nothing registers later.   *)
(* A frame holds the locals of one call; self._method_definitions is the   *)
(* only thing the calls share.                                             *)
(***************************************************************************)
Threads == 1..NumThreads

Idle == [pc |-> "idle"]

\* the envelopes the threads send
ConcurrentPayloads ==
  { Envelope(JStr("2.0"), JStr("exampleService.add"), JList(<< JInt(2), JInt(3) >>), JInt(1)),
    Envelope(JStr("2.0"), JStr("exampleService.add"), JList(<< JInt(17), JInt(3) >>), JInt(0)),
    Envelope(JStr("2.0"), JStr("exampleService.add"), JList(<< JStr("a"), JInt(2) >>), JStr("")),
    Envelope(JStr("2.0"), JStr("exampleService.add"), JInt(5), JInt(1)),
    Envelope(JStr("2.0"), JStr("sampleService.get_user"), JList(<< JStr("Alice") >>), JNull),
    Envelope(JStr("2.0"), JStr("exampleService.subtract"), JList(<< JInt(2), JInt(3) >>),
             JBool(FALSE)),
    Envelope(JStr("2.0"), JList(<< >>), JList(<< JInt(2), JInt(3) >>), JInt(1)),
    Without(Envelope(JStr("2.0"), JStr("exampleService.add"), JList(<< JInt(2), JInt(3) >>),
                     JInt(1)), {"id"}) }

\* registry after the decorations of a sequence have run
RECURSIVE Imported(_)
Imported(decorations) ==
  IF decorations = << >> THEN [services |-> EmptyMap, methods |-> EmptyMap]
  ELSE LET before == Imported(SubSeq(decorations, 1, Len(decorations) - 1))
           last == decorations[Len(decorations)]
       IN register_service(before.services, before.methods,
                           IF last.name # "" THEN last.name ELSE default_name(last.cls),
                           [cls |-> last.cls])

ConcurrentInit ==
  /\ _service_definitions =
       Imported(<< [name |-> "", cls |-> "SayHelloService"],
                   [name |-> "", cls |-> "ExampleService"],
                   [name |-> "sampleService", cls |-> "SampleService"] >>).services
  /\ _method_definitions =
       Imported(<< [name |-> "", cls |-> "SayHelloService"],
                   [name |-> "", cls |-> "ExampleService"],
                   [name |-> "sampleService", cls |-> "SampleService"] >>).methods
  /\ call = NoCall
  /\ http = NoHttp
  /\ decorated = << [name |-> "sampleService", cls |-> "SampleService",
                      returned |-> "SampleService"] >>
  /\ conversion = NoConversion
  /\ threads = [t \in Threads |-> Idle]
  /\ got = NoGet

\* the frame of a call that has ended
Done(frame, outcome) ==
  [pc |-> "done", payload |-> frame.payload, now |-> frame.now, outcome |-> outcome]

\* the arguments result_maker calls the invoker with, as if result_maker
\* were kept on the registry: those of the call that bound last
result_maker_shared(frames, t) ==
  frames[CHOOSE u \in DOMAIN frames :
           /\ frames[u].pc = "invoke"
           /\ \A o \in DOMAIN frames : frames[o].pc = "invoke" => o <= u].bound

\* the arguments result_maker calls the invoker with: the kwparams or params
\* of its own frame, which the lambda closes over
result_maker(frames, t) == frames[t].bound

\* thread t calls registry._execute_request(payload)
Enter(t, payload) ==
  /\ threads[t].pc \in {"idle", "done"}
  /\ threads' = [threads EXCEPT ![t] = [pc |-> "validate", payload |-> payload, now |-> 0]]
  /\ UNCHANGED << _service_definitions, _method_definitions, call, http, decorated,
                  conversion, got >>

\* the assertions on the payload
Validate(t) ==
  /\ threads[t].pc = "validate"
  /\ threads' =
       [threads EXCEPT ![t] =
          IF ~validate(threads[t].payload).ok
            THEN Done(threads[t], Raised(validate(threads[t].payload).exc, << >>))
          ELSE IF validate(threads[t].payload).v # ""
            THEN Done(threads[t],
                      Returned(_make_error(INVALID_REQUEST, validate(threads[t].payload).v,
                                           JNull), << >>))
          ELSE [threads[t] EXCEPT !.pc = "resolve"]]
  /\ UNCHANGED << _service_definitions, _method_definitions, call, http, decorated,
                  conversion, got >>

\* method_def = self._method_definitions.get(payload["method"])
Resolve(t) ==
  /\ threads[t].pc = "resolve"
  /\ threads' =
       [threads EXCEPT ![t] =
          IF ~resolve(_method_definitions, threads[t].payload.d["method"]).ok
            THEN Done(threads[t],
                      Raised(resolve(_method_definitions,
                                     threads[t].payload.d["method"]).exc, << >>))
          ELSE IF resolve(_method_definitions, threads[t].payload.d["method"]).v = NoMethod
            THEN Done(threads[t],
                      Returned(_make_error(METHOD_NOT_FOUND, "Method not found",
                                           threads[t].payload.d["id"]), << >>))
          ELSE [pc |-> "bind", payload |-> threads[t].payload, now |-> threads[t].now,
                method_def |-> resolve(_method_definitions,
                                       threads[t].payload.d["method"]).v]]
  /\ UNCHANGED << _service_definitions, _method_definitions, call, http, decorated,
                  conversion, got >>

\* the first try block: the arguments are parsed and result_maker is made
Bind(t) ==
  /\ threads[t].pc = "bind"
  /\ threads' =
       [threads EXCEPT ![t] =
          IF ~bind(threads[t].method_def, threads[t].payload.d["params"]).ok
            THEN Done(threads[t],
                      Returned(_make_error(INVALID_PARAMS,
                                 bind(threads[t].method_def,
                                      threads[t].payload.d["params"]).exc,
                                 threads[t].payload.d["id"]), << >>))
          ELSE [pc |-> "invoke", payload |-> threads[t].payload, now |-> threads[t].now,
                method_def |-> threads[t].method_def,
                bound |-> bind(threads[t].method_def, threads[t].payload.d["params"]).v]]
  /\ UNCHANGED << _service_definitions, _method_definitions, call, http, decorated,
                  conversion, got >>

\* result = result_maker(): the service method runs and reads the clock
Invoke(t, now) ==
  /\ threads[t].pc = "invoke"
  /\ now \in ClockReadings(threads[t].payload)
  /\ threads' =
       [threads EXCEPT ![t] =
          [pc |-> "encode", payload |-> threads[t].payload, now |-> now,
           called |-> [method |-> threads[t].payload.d["method"].s,
                       self |-> threads[t].method_def.func.self,
                       args |-> result_maker(threads, t).args,
                       kwargs |-> result_maker(threads, t).kwargs],
           result |-> invoker(threads[t].method_def, result_maker(threads, t).args,
                              result_maker(threads, t).kwargs, now)]]
  /\ UNCHANGED << _service_definitions, _method_definitions, call, http, decorated,
                  conversion, got >>

\* the Result envelope is built, or the -32000 Error in the except clause
Encode(t) ==
  /\ threads[t].pc = "encode"
  /\ threads' =
       [threads EXCEPT ![t] =
          Done(threads[t],
               Returned(IF threads[t].result.ok
                          THEN make_result(threads[t].result.v, threads[t].payload.d["id"])
                        ELSE _make_error(SERVER_ERROR, threads[t].result.exc,
                                         threads[t].payload.d["id"]),
                        << threads[t].called >>))]
  /\ UNCHANGED << _service_definitions, _method_definitions, call, http, decorated,
                  conversion, got >>

ConcurrentNext ==
  \E t \in Threads :
    \/ \E payload \in ConcurrentPayloads : Enter(t, payload)
    \/ Validate(t)
    \/ Resolve(t)
    \/ Bind(t)
    \/ \E now \in Instants : Invoke(t, now)
    \/ Encode(t)

ConcurrentSpec == ConcurrentInit /\ [][ConcurrentNext]_vars

(***************************************************************************)
(* The registry at run time: register_service, set and get called with     *)
(* service objects made by the caller, and requests executed in between.   *)
(* An object is told from another of its class by its identity oid.        *)
(***************************************************************************)
Objects ==
  {[cls |-> cls, oid |-> oid] : cls \in {"ExampleService", "SayHelloService"},
                                oid \in 1..NumObjects}

ServiceNames == {"exampleService", "sayHelloService"}

\* the registry after set(name, service)
set(service_definitions, method_definitions, name, service) ==
  IF name \in DOMAIN service_definitions
    THEN [services |-> [service_definitions EXCEPT ![name].service_instance = service],
          methods |-> method_definitions]
  ELSE register_service(service_definitions, method_definitions, name, service)

\* get(name): the service object, None for a name that is not registered
get(service_definitions, name) ==
  IF name \in DOMAIN service_definitions
    THEN service_definitions[name].service_instance
  ELSE JNull

\* requests for the methods of the two classes under each name
RegistryPayloads ==
  { Envelope(JStr("2.0"), JStr(name \o ".add"), JList(<< JInt(2), JInt(3) >>), JInt(1)) :
      name \in ServiceNames } \cup
  { Envelope(JStr("2.0"), JStr(name \o ".say_hello"), JList(<< JStr("World") >>), JInt(1)) :
      name \in ServiceNames }

\* registry.register_service(name, lambda: instance)
RegisterService(name, instance) ==
  /\ _service_definitions' =
       register_service(_service_definitions, _method_definitions, name, instance).services
  /\ _method_definitions' =
       register_service(_service_definitions, _method_definitions, name, instance).methods
  /\ call' = NoCall
  /\ got' = NoGet
  /\ UNCHANGED << http, decorated, conversion, threads >>

\* registry.set(name, service)
Set(name, service) ==
  /\ _service_definitions' =
       set(_service_definitions, _method_definitions, name, service).services
  /\ _method_definitions' =
       set(_service_definitions, _method_definitions, name, service).methods
  /\ call' = NoCall
  /\ got' = NoGet
  /\ UNCHANGED << http, decorated, conversion, threads >>

\* registry.get(name)
Get(name) ==
  /\ got' = << [name |-> name, returned |-> get(_service_definitions, name)] >>
  /\ call' = NoCall
  /\ UNCHANGED << _service_definitions, _method_definitions, http, decorated,
                  conversion, threads >>

RegistryNext ==
  \/ \E name \in ServiceNames, instance \in Objects : RegisterService(name, instance)
  \/ \E name \in ServiceNames, service \in Objects : Set(name, service)
  \/ \E name \in ServiceNames : Get(name)
  \/ \E payload \in RegistryPayloads : ExecuteRequest(payload, 0)

RegistrySpec == Init /\ [][RegistryNext]_vars

(***************************************************************************)
(* Vocabulary of the properties.                                           *)
(***************************************************************************)
\* _execute_request has been called directly and this is its record
Called == call # NoCall
Request == call[1].payload
Outcome == call[1].outcome

IsObject(payload) == payload.t = "dict"
HasAllKeys(payload) == {"jsonrpc", "method", "params", "id"} \subseteq DOMAIN payload.d

\* the payload passes the validation stage
Validates(payload) ==
  IsObject(payload) /\ HasAllKeys(payload) /\ payload.d["jsonrpc"] = JStr("2.0")

\* the payload names a method of the index
NamesRegistered(payload) ==
  payload.d["method"].t = "str" /\ payload.d["method"].s \in DOMAIN _method_definitions

IsResult(response) == response.t = "dict" /\ "result" \in DOMAIN response.d
IsError(response) == response.t = "dict" /\ "error" \in DOMAIN response.d
HasCode(response, code) ==
  IsError(response) /\ response.d["error"].d["code"] = JInt(code)
EchoesId(response, payload) ==
  "id" \in DOMAIN response.d /\ response.d["id"] = payload.d["id"]

\* the wire value has the shape of the declared type
RECURSIVE Matches(_, _)
Matches(value, python_type) ==
  CASE python_type.k = "any" -> TRUE
    [] python_type.k = "int" -> value.t = "int"
    [] python_type.k = "str" -> value.t = "str"
    [] python_type.k = "datetime" -> value.t = "str" /\ fromisoformat(value).ok
    [] python_type.k = "list" ->
         value.t = "list" /\ \A i \in 1..Len(value.l) : Matches(value.l[i], python_type.a)
    [] python_type.k = "dataclass" ->
         LET fs == dataclass_fields(python_type.cls)
         IN /\ value.t = "dict"
            /\ DOMAIN value.d = {fs[i].name : i \in 1..Len(fs)}
            /\ \A i \in 1..Len(fs) : Matches(value.d[fs[i].name], fs[i].type)

\* the payload is a valid positional call of a registered method
ValidPositionalCall(payload) ==
  /\ Validates(payload)
  /\ NamesRegistered(payload)
  /\ payload.d["params"].t = "list"
  /\ LET types == arg_types(_method_definitions[payload.d["method"].s])
         args == payload.d["params"].l
     IN /\ Len(args) = Len(types)
        /\ \A i \in 1..Len(args) : Matches(args[i], types[i])

\* m(convert_arg of each argument) for such a payload
DirectCall(payload, now) ==
  LET method_def == _method_definitions[payload.d["method"].s]
      types == arg_types(method_def)
      args == payload.d["params"].l
  IN CallMethod(method_def.func.self.cls, method_def.func.name,
                [i \in 1..Len(args) |-> convert_arg(args[i], types[i]).v],
                EmptyMap, now)

(***************************************************************************)
(* C1.  A request with jsonrpc "2.0", the key of a registered method, an   *)
(* id and a positional params list whose length and element types match    *)
(* the declared parameters gets the Result envelope                        *)
(* {jsonrpc: "2.0", result: to_dict(m(converted arguments)), id: its id}.  *)
(***************************************************************************)
C1_ValidCallReturnsResult ==
  (Called /\ ValidPositionalCall(Request)) =>
    LET direct == DirectCall(Request, call[1].now)
    IN /\ direct.ok
       /\ Outcome.ok
       /\ DOMAIN Outcome.v.d = {"jsonrpc", "result", "id"}
       /\ Outcome.v.d["jsonrpc"] = JStr("2.0")
       /\ Outcome.v.d["result"] = to_dict(direct.v)
       /\ Outcome.v.d["id"] = Request.d["id"]

\* a dataclass argument with a timestamp field was decoded and the call answered
C1_Witness ==
  /\ Called
  /\ ValidPositionalCall(Request)
  /\ Request.d["method"] = JStr("sampleService.say_hello")
  /\ IsResult(Outcome.v)
  /\ Outcome.v.d["result"] = JStr("Hello Alice!")

(***************************************************************************)
(* C2.  A request object that lacks one of the keys jsonrpc, method,       *)
(* params, id, or whose jsonrpc is not the string "2.0", gets an Error     *)
(* envelope with code -32600, whatever its other fields hold.              *)
(***************************************************************************)
C2_InvalidRequest ==
  (Called /\ IsObject(Request) /\ ~Validates(Request)) =>
    Outcome.ok /\ HasCode(Outcome.v, -32600) /\ ~IsResult(Outcome.v)

\* the id is missing and the method value is an array
C2_Witness ==
  /\ Called
  /\ IsObject(Request)
  /\ DOMAIN Request.d = {"jsonrpc", "method", "params"}
  /\ Request.d["method"].t = "list"
  /\ Outcome.ok
  /\ HasCode(Outcome.v, -32600)

(***************************************************************************)
(* C3.  A request that passes validation and whose method value is not the *)
(* key of a registered method gets an Error envelope with code -32601      *)
(* whose id field equals the request's id.                                 *)
(***************************************************************************)
C3_MethodNotFound ==
  (Called /\ Validates(Request) /\ ~NamesRegistered(Request)) =>
    Outcome.ok /\ HasCode(Outcome.v, -32601) /\ EchoesId(Outcome.v, Request)

(***************************************************************************)
(* C4.  A request that names a registered method and whose params value is *)
(* neither a list nor a mapping gets an Error envelope with code -32602    *)
(* and the target method is not invoked.                                   *)
(***************************************************************************)
C4_InvalidParamsShape ==
  (Called /\ Validates(Request) /\ NamesRegistered(Request)
          /\ Request.d["params"].t \notin {"list", "dict"}) =>
    Outcome.ok /\ HasCode(Outcome.v, -32602) /\ Outcome.calls = << >>

\* params was null for a registered method
C4_Witness ==
  /\ Called
  /\ Validates(Request)
  /\ NamesRegistered(Request)
  /\ Request.d["params"] = JNull
  /\ Outcome.ok
  /\ HasCode(Outcome.v, -32602)

\* the declared parameter names of the method a payload names
DeclaredNames(payload) ==
  LET names == arg_names(_method_definitions[payload.d["method"].s])
  IN {names[i] : i \in 1..Len(names)}

(***************************************************************************)
(* C5.  A request to a registered method whose params is a named mapping   *)
(* that omits a required declared parameter gets an Error envelope with    *)
(* code -32602 and the request's id.                                       *)
(***************************************************************************)
C5_MissingNamedParameter ==
  (Called /\ Validates(Request) /\ NamesRegistered(Request)
          /\ Request.d["params"].t = "dict"
          /\ DeclaredNames(Request) \ DOMAIN Request.d["params"].d # {}) =>
    Outcome.ok /\ HasCode(Outcome.v, -32602) /\ EchoesId(Outcome.v, Request)

\* the request validates, resolves and binds, and the target raises
TargetRaises(payload, now) ==
  /\ Validates(payload)
  /\ NamesRegistered(payload)
  /\ LET method_def == _method_definitions[payload.d["method"].s]
         bound == bind(method_def, payload.d["params"])
     IN bound.ok /\ ~invoker(method_def, bound.v.args, bound.v.kwargs, now).ok

(***************************************************************************)
(* C6.  When a request validates, resolves and binds and the target raises *)
(* an exception, the response is an Error envelope with code -32000 and    *)
(* the request's id, and the target was called exactly once.               *)
(***************************************************************************)
C6_TargetRaises ==
  (Called /\ TargetRaises(Request, call[1].now)) =>
    /\ Outcome.ok
    /\ HasCode(Outcome.v, -32000)
    /\ ~IsResult(Outcome.v)
    /\ EchoesId(Outcome.v, Request)
    /\ Len(Outcome.calls) = 1

\* the envelopes _execute_request has returned, directly or under handle_request
ReturnedEnvelopes ==
  {call[i].outcome.v : i \in {j \in 1..Len(call) : call[j].outcome.ok}} \cup
  {http.executed[i].outcome.v :
     i \in {j \in 1..Len(http.executed) : http.executed[j].outcome.ok}}

ErrorCodes == {-32600, -32601, -32602, -32000}

(***************************************************************************)
(* C7.  Every envelope returned by _execute_request has jsonrpc "2.0" and  *)
(* exactly one of the fields result and error, and an error field holds a  *)
(* code of {-32600, -32601, -32602, -32000} together with a message.       *)
(***************************************************************************)
C7_EnvelopeShape ==
  \A response \in ReturnedEnvelopes :
    /\ response.t = "dict"
    /\ "jsonrpc" \in DOMAIN response.d
    /\ response.d["jsonrpc"] = JStr("2.0")
    /\ IsResult(response) # IsError(response)
    /\ IsError(response) =>
         /\ response.d["error"].t = "dict"
         /\ DOMAIN response.d["error"].d = {"code", "message"}
         /\ response.d["error"].d["code"] \in {JInt(code) : code \in ErrorCodes}
         /\ response.d["error"].d["message"].t = "str"

\* a batch answered one line with a Result and the next with an Error
C7_Witness ==
  /\ Len(http.executed) = 2
  /\ http.executed[1].outcome.ok /\ IsResult(http.executed[1].outcome.v)
  /\ http.executed[2].outcome.ok /\ IsError(http.executed[2].outcome.v)

\* the positions of the non-blank lines among the lines read
NonBlankPositions(lines) == {i \in 1..Len(lines) : ~is_blank(lines[i])}

\* the position of the k-th non-blank line
NthNonBlank(lines, k) ==
  CHOOSE i \in NonBlankPositions(lines) :
    Cardinality({j \in NonBlankPositions(lines) : j <= i}) = k

\* the envelope a chunk carries
Decoded(chunk) == chunk.bytes[1].value

InNdjson == http.mimetype = "application/x-ndjson"

\* the text is the serialization of one JSON object
IsObjectText(text) == text.kind = "json" /\ text.value.t = "dict"

(***************************************************************************)
(* C8.  In application/x-ndjson mode a failure on one line, a line that    *)
(* cannot be parsed included, gives an Error response for that line only   *)
(* and the later lines are still processed: every non-blank line read has  *)
(* its response, in input order, and the generator does not die.           *)
(***************************************************************************)
C8_BatchIsolation ==
  InNdjson =>
    /\ http.gen # "raised"
    /\ Len(http.output) = Cardinality(NonBlankPositions(http.read))
    /\ \A k \in 1..Len(http.output) :
         http.read[NthNonBlank(http.read, k)] = Malformed => IsError(Decoded(http.output[k]))

(***************************************************************************)
(* C9.  In application/x-ndjson mode, for well-formed lines (each line is  *)
(* blank or one JSON object), the output has exactly one chunk per         *)
(* non-blank line, none for a blank line, and the k-th chunk is the        *)
(* serialized response of the k-th non-blank line.                         *)
(***************************************************************************)
C9_OneChunkPerLine ==
  (InNdjson /\ \A i \in 1..Len(http.read) : is_blank(http.read[i]) \/ IsObjectText(http.read[i])) =>
    /\ http.gen # "raised"
    /\ Len(http.output) = Cardinality(NonBlankPositions(http.read))
    /\ Len(http.executed) = Len(http.output)
    /\ \A k \in 1..Len(http.output) :
         /\ http.executed[k].line = NthNonBlank(http.read, k)
         /\ http.executed[k].payload = http.read[NthNonBlank(http.read, k)].value
         /\ http.executed[k].outcome.ok
         /\ http.output[k] = encode(to_json(http.executed[k].outcome.v))

(***************************************************************************)
(* C10.  In application/json mode, for a body that is one JSON object,     *)
(* handle_request runs _execute_request exactly once and returns exactly   *)
(* one chunk, with the status "500 Internal Server Error" if and only if   *)
(* the response envelope has an error field, and "200 OK" otherwise.       *)
(***************************************************************************)
C10_JsonMode ==
  (http.mimetype = "application/json" /\ IsObjectText(http.read[1])) =>
    /\ http.raised = ""
    /\ Len(http.executed) = 1
    /\ http.iterable = "list_iterator"
    /\ Len(http.output) + Len(http.pending) = 1
    /\ http.executed[1].outcome.ok
    /\ http.status = IF IsError(http.executed[1].outcome.v)
                     THEN "500 Internal Server Error" ELSE "200 OK"

\* handle_request has been called
HandleRequestCalled == http # NoHttp

(***************************************************************************)
(* C11.  For every content type other than exactly "application/json" and  *)
(* "application/x-ndjson", handle_request returns the status               *)
(* "415 Unsupported Media Type" and an output that stays empty when it is  *)
(* consumed; no line is read, no request executed, no method invoked.      *)
(***************************************************************************)
C11_UnsupportedMediaType ==
  (HandleRequestCalled
     /\ http.mimetype \notin {"application/json", "application/x-ndjson"}) =>
    /\ http.status = "415 Unsupported Media Type"
    /\ http.raised = ""
    /\ http.output = << >>
    /\ http.pending = << >>
    /\ http.read = << >>
    /\ http.executed = << >>

\* a JSON content type with a charset parameter was refused and the empty
\* output consumed to its end
C11_Witness ==
  /\ http.mimetype = "application/json; charset=utf-8"
  /\ http.status = "415 Unsupported Media Type"
  /\ http.iterable = "BytesIO"
  /\ http.gen = "done"
  /\ DOMAIN _method_definitions # {}

\* a value has been encoded and decoded again
Converted == conversion # NoConversion /\ "back" \in DOMAIN conversion[1]

(***************************************************************************)
(* C12.  Round trip of the type converter: for every supported declared    *)
(* type T (scalars, list/tuple/set of T, dict, dataclass records, the      *)
(* datetime, timedelta and Decimal adapters) and every value v of type T,  *)
(* convert_arg(to_dict(v), T) returns a value equal to v.                  *)
(***************************************************************************)
C12_RoundTrip ==
  Converted => conversion[1].back.ok /\ conversion[1].back.v = conversion[1].value

\* the wire value is a mapping decoded against a dataclass and a declared
\* field whose type is not Any is absent from it
LacksField(value, python_type) ==
  /\ python_type.k = "dataclass"
  /\ value.t = "dict"
  /\ \E i \in 1..Len(dataclass_fields(python_type.cls)) :
       /\ dataclass_fields(python_type.cls)[i].type # TAny
       /\ dataclass_fields(python_type.cls)[i].name \notin DOMAIN value.d

\* the payload is a positional call of a registered method, of the declared
\* length, and one of its arguments is such a mapping
CarriesIncompleteRecord(payload) ==
  /\ Validates(payload)
  /\ NamesRegistered(payload)
  /\ payload.d["params"].t = "list"
  /\ LET types == arg_types(_method_definitions[payload.d["method"].s])
         args == payload.d["params"].l
     IN /\ Len(args) = Len(types)
        /\ \E i \in 1..Len(args) : LacksField(args[i], types[i])

(***************************************************************************)
(* C13.  Decoding a wire mapping against a dataclass fails whenever a      *)
(* declared field whose type is not Any is absent from the mapping: a      *)
(* request carrying such a record parameter gets an Error envelope with    *)
(* code -32602, the method is not called with a defaulted field.           *)
(***************************************************************************)
C13_AbsentFieldFails ==
  (Called /\ CarriesIncompleteRecord(Request)) =>
    Outcome.ok /\ HasCode(Outcome.v, -32602) /\ Outcome.calls = << >>

(***************************************************************************)
(* C14.  For every request that passes validation, the envelope returned   *)
(* (a Result, or an Error with code -32601, -32602 or -32000) has an id    *)
(* field equal to the request's id, for every JSON scalar id: null, 0,     *)
(* false and the empty string included.                                    *)
(***************************************************************************)
C14_IdEchoed ==
  (Called /\ Validates(Request) /\ Outcome.ok) => EchoesId(Outcome.v, Request)

\* the method of a frame's envelope on the arguments bound from that envelope
DirectBound(frame) ==
  invoker(_method_definitions[frame.payload.d["method"].s],
          bind(_method_definitions[frame.payload.d["method"].s],
               frame.payload.d["params"]).v.args,
          bind(_method_definitions[frame.payload.d["method"].s],
               frame.payload.d["params"]).v.kwargs, frame.now)

(***************************************************************************)
(* C15.  With a registry that is not mutated, in any interleaving of       *)
(* concurrent _execute_request calls every call ends with the response     *)
(* (same id, same result or error) of executing its envelope alone, and    *)
(* while it runs its method and bound arguments are those of its own       *)
(* envelope.                                                               *)
(***************************************************************************)
C15_ConcurrentCallsIndependent ==
  \A t \in Threads :
    /\ threads[t].pc = "done" =>
         threads[t].outcome =
           _execute_request(_method_definitions, threads[t].payload, threads[t].now)
    /\ threads[t].pc = "invoke" =>
         /\ threads[t].method_def = _method_definitions[threads[t].payload.d["method"].s]
         /\ Ok(threads[t].bound) = bind(threads[t].method_def, threads[t].payload.d["params"])
    /\ threads[t].pc = "encode" =>
         threads[t].result = DirectBound(threads[t])

\* a call ended with its Result after the other thread had bound the
\* arguments of another envelope and was still to invoke its method
C15_Witness ==
  /\ threads[1].pc = "done"
  /\ threads[1].outcome.ok
  /\ IsResult(threads[1].outcome.v)
  /\ threads[1].outcome.v.d["result"] = JInt(5)
  /\ threads[2].pc = "invoke"
  /\ threads[2].bound.args = << JInt(17), JInt(3) >>

\* the decorator has been called last without a name, on this class
DecoratedUnnamed == decorated # NoDecoration /\ decorated[1].name = ""

(***************************************************************************)
(* C16.  Decorating a class C with jsonrpc_service() without a name        *)
(* registers one instance of C under C's class name with its first         *)
(* character lower-cased, makes every public callable m of that instance   *)
(* resolvable under "<name>.<m>" and bound to that instance, makes no      *)
(* underscore-prefixed attribute resolvable, and returns C itself.         *)
(***************************************************************************)
C16_DecoratorRegisters ==
  DecoratedUnnamed =>
    LET cls == decorated[1].cls
        name == default_name(cls)
    IN /\ name \in DOMAIN _service_definitions
       /\ _service_definitions[name].service_instance.cls = cls
       /\ \A m \in dir(cls) :
            IF ~startswith_underscore(m) /\ callable(cls, m)
              THEN /\ (name \o "." \o m) \in DOMAIN _method_definitions
                   /\ _method_definitions[name \o "." \o m].name = m
                   /\ _method_definitions[name \o "." \o m].func =
                        BoundMethod(_service_definitions[name].service_instance, m)
            ELSE (name \o "." \o m) \notin DOMAIN _method_definitions
       /\ decorated[1].returned = cls

\* SayHelloService was decorated last: sayHelloService.say_hello resolves
\* and sayHelloService.__init__ does not
C16_Witness ==
  /\ DecoratedUnnamed
  /\ decorated[1].cls = "SayHelloService"
  /\ decorated[1].returned = "SayHelloService"
  /\ "sayHelloService" \in DOMAIN _service_definitions
  /\ "sayHelloService.say_hello" \in DOMAIN _method_definitions
  /\ "sayHelloService.__init__" \notin DOMAIN _method_definitions

\* the line terminator "\n"
Newline == [kind |-> "newline"]

\* b"".join(chunks)
RECURSIVE Joined(_)
Joined(chunks) ==
  IF chunks = << >> THEN << >> ELSE Head(chunks).bytes \o Joined(Tail(chunks))

(***************************************************************************)
(* C17.  In application/x-ndjson mode the output is itself NDJSON: in the  *)
(* concatenation of the output chunks every response is one JSON object    *)
(* on a line of its own, so that two consecutive responses are separated   *)
(* by a newline.                                                           *)
(***************************************************************************)
C17_OutputIsNdjson ==
  InNdjson =>
    \A i \in 1..(Len(Joined(http.output)) - 1) :
      Joined(http.output)[i].kind = "json" => Joined(http.output)[i + 1] = Newline

\* the payload is a positional call of a registered method with fewer or
\* more arguments than the method declares
WrongArity(payload) ==
  /\ Validates(payload)
  /\ NamesRegistered(payload)
  /\ payload.d["params"].t = "list"
  /\ Len(payload.d["params"].l) # Len(arg_types(_method_definitions[payload.d["method"].s]))

(***************************************************************************)
(* C18.  A request to a registered method with a positional params list    *)
(* whose length differs from the number of declared parameters, shorter or *)
(* longer, gets an Error envelope with code -32602 and the request's id,   *)
(* and the target is not invoked.                                          *)
(***************************************************************************)
C18_ArityMismatch ==
  (Called /\ WrongArity(Request)) =>
    /\ Outcome.ok
    /\ HasCode(Outcome.v, -32602)
    /\ EchoesId(Outcome.v, Request)
    /\ Outcome.calls = << >>

(***************************************************************************)
(* C19.  For every payload that is a JSON object, whatever its method,     *)
(* params and id fields hold, _execute_request returns a Result or an      *)
(* Error envelope and raises no exception to its caller.                   *)
(***************************************************************************)
C19_NeverRaises ==
  (Called /\ IsObject(Request)) =>
    Outcome.ok /\ (IsResult(Outcome.v) \/ IsError(Outcome.v))

(***************************************************************************)
(* C20.  The application/x-ndjson output is lazy and interleaved with the  *)
(* consumption of the input: the request on line k+1 is not executed until *)
(* the consumer has taken the response chunk for line k, and no line is    *)
(* executed as long as the consumer has not iterated the sequence.         *)
(***************************************************************************)
C20_LazyOutput ==
  InNdjson =>
    /\ \A k \in 1..Len(http.executed) : Len(http.output) >= k - 1
    /\ (http.gen = "suspended" /\ http.output = << >>) => http.executed = << >>

\* the consumer took two chunks, one per executed line, and the generator
\* waits for the next call
C20_Witness ==
  /\ InNdjson
  /\ http.gen = "suspended"
  /\ Len(http.executed) = 2
  /\ Len(http.output) = 2
  /\ IsObjectText(http.read[Len(http.read)])

\* the code of the earliest stage that fails for an object payload, in the
\* order Validate, Resolve, Bind, Invoke; 0 when no stage fails
EarliestFailure(payload, now) ==
  IF ~Validates(payload) THEN -32600
  ELSE IF ~NamesRegistered(payload) THEN -32601
  ELSE IF ~bind(_method_definitions[payload.d["method"].s], payload.d["params"]).ok
    THEN -32602
  ELSE IF TargetRaises(payload, now) THEN -32000
  ELSE 0

(***************************************************************************)
(* C21.  The stages of _execute_request are ordered Validate, Resolve,     *)
(* Bind, Invoke, Encode: a failing request gets the error code of the      *)
(* earliest failing stage (an unknown method with badly shaped params      *)
(* gets -32601, a missing id with an unknown method gets -32600), and the  *)
(* target is invoked at most once per envelope and only after validation,  *)
(* resolution and binding have all succeeded.                              *)
(***************************************************************************)
C21_StageOrder ==
  (Called /\ IsObject(Request)) =>
    /\ Outcome.ok
    /\ IF EarliestFailure(Request, call[1].now) = 0 THEN IsResult(Outcome.v)
       ELSE HasCode(Outcome.v, EarliestFailure(Request, call[1].now))
    /\ Len(Outcome.calls) <= 1
    /\ Outcome.calls # << >> => EarliestFailure(Request, call[1].now) \in {0, -32000}

\* the keys "<s>.<m>" for the registered names s and the methods m of the
\* current ServiceDefinition of s
CurrentKeys ==
  UNION {{name \o "." \o m : m \in DOMAIN _service_definitions[name].methods} :
           name \in DOMAIN _service_definitions}

\* the MethodDefinition the current ServiceDefinitions hold for a key
CurrentDefinition(key) ==
  LET name == CHOOSE n \in DOMAIN _service_definitions :
                \E m \in DOMAIN _service_definitions[n].methods : key = n \o "." \o m
  IN _service_definitions[name].methods[
       CHOOSE m \in DOMAIN _service_definitions[name].methods : key = name \o "." \o m]

(***************************************************************************)
(* C22.  After any sequence of register_service and set calls, registering *)
(* a name again with an object that has other public methods included,     *)
(* the flattened method index contains the key "<s>.<m>" if and only if s  *)
(* is a registered service name and m is a method of the current           *)
(* ServiceDefinition of s, and the key maps to that MethodDefinition.      *)
(***************************************************************************)
C22_IndexMatchesServices ==
  /\ DOMAIN _method_definitions = CurrentKeys
  /\ \A key \in CurrentKeys : _method_definitions[key] = CurrentDefinition(key)

\* the service name a payload's method key starts with, among the names used
ServiceOf(payload) ==
  CHOOSE name \in ServiceNames :
    \E m \in {"add", "say_hello"} : payload.d["method"] = JStr(name \o "." \o m)

(***************************************************************************)
(* C23.  After any sequence of register_service, set and get calls, a      *)
(* request to "<name>.<m>" is executed on the service instance that        *)
(* get(name) returns at that time: after set(name, s2) on a registered     *)
(* name get(name) returns s2 and the requests for the service's methods    *)
(* run against s2, and set on an unregistered name registers s2 and makes  *)
(* its public methods dispatchable.                                        *)
(***************************************************************************)
C23_RequestsRunOnCurrentInstance ==
  /\ got # NoGet => got[1].returned = get(_service_definitions, got[1].name)
  /\ (Called /\ Outcome.ok /\ Outcome.calls # << >>) =>
       Outcome.calls[1].self = get(_service_definitions, ServiceOf(Request))

=============================================================================
